---------------------------- MODULE Spec2Model ----------------------------
(***************************************************************************)
(* A model of the search client of adsabs-rs: the Search builder, the       *)
(* serialization of its parameters, its direct send(), the blocking        *)
(* paginated iterator SearchIter and the asynchronous stream               *)
(* (src/src/endpoints/search.rs, src/src/endpoints.rs), run against a      *)
(* backend that holds a list of documents and echoes the requested start.  *)
(* The list is fixed, except in SpecLive, where the backend's total and    *)
(* the length of its pages change between page requests.                   *)
(*                                                                         *)
(* Document i of the backend's result set is identified with its absolute  *)
(* offset i.  A page is a run of consecutive offsets, and the iterator     *)
(* only ever consumes its buffer from the front (Vec::into_iter), so the   *)
(* buffer is always the tail of one page: it is kept as the offset of its  *)
(* first document and its length.                                          *)
(***************************************************************************)
EXTENDS Integers, Sequences, FiniteSets, TLC

VARIABLES
    numDocs,   \* the backend: it holds documents 0 .. numDocs-1
    pc,        \* "builder", "sent" (send), "iter" (iter) or "stream" (stream)
    query,     \* the Search builder: [rows, start], both Option<u64>
    it,        \* the SearchIter: [num_found, start, limit, docs]
    fresh,     \* TRUE until the iterator is advanced for the first time
    item,      \* what the last call of Iterator::next returned
    nreq,      \* number of page requests the iterator has transmitted
    lastReq,   \* the last page request the iterator transmitted
    drain,     \* the consumer collect::<Result<Vec<_>>>() of the CLI
    extra,     \* advances made by the caller after collect() has returned
    lastReply, \* kind and message of the last envelope the iterator received
    faults,    \* number of requests the backend has failed so far
    sent,      \* the last direct Search::send: request, envelope and result
    cap,       \* the backend: the most documents it returns in one page
    hist,      \* history of the iterator: advances, documents, pages
    st,        \* the stream of Search::stream and what it has produced
    twin,      \* a second iterator made from a clone of the same builder
    params,    \* the Search builder: its fields q, fl, fq and sort
    calls,     \* the setter calls made so far on the Search builder
    wire,      \* the query parameters the last direct send() transmitted
    noBib,     \* the backend: offsets of the documents without a bibcode
    cli,       \* the command line and config file of the CLI, and its stage
    xpc,       \* the Export builder: "none", "builder" or "sent" (send)
    export,    \* the Export builder: [format_type, bibcode, sort, format]
    post       \* the POST requests dispatched to the export endpoint

vars == <<numDocs, pc, query, it, fresh, item, nreq, lastReq, drain, extra,
          lastReply, faults, sent, cap, hist, st, twin, params, calls, wire,
          noBib, cli, xpc, export, post>>

-----------------------------------------------------------------------------
(* Bounds of the exploration.                                              *)

\* small backends hold 0 .. MaxDocs documents
MaxDocs == 4
\* large backends hold MAX_ROWS .. MAX_ROWS + Over documents
Over == 2
\* rows(n) is called with n in 1 .. MaxRows, MAX_ROWS or MAX_ROWS + 1
MaxRows == 3
\* start(n) is called with n in 0 .. MaxStart
MaxStart == 2
\* limit(n) is called with n in 0 .. MaxLimit, MAX_ROWS or MAX_ROWS + 1
MaxLimit == 3
\* the caller advances the iterator at most MaxExtra times after the drain
MaxExtra == 2
\* the backend fails at most MaxFaults requests
MaxFaults == 2
\* against a live backend the caller advances at most MaxAdvances times
MaxAdvances == 9
\* fl() is called at most MaxFl times, sort() at most MaxSort times
MaxFl == 3
MaxSort == 2
\* a builder is made with at most MaxCalls calls of fl(), fq() and sort()
\* when all of its setters are in use
MaxCalls == 3

\* The maximum number of rows that the API allows
MAX_ROWS == 2000

\* the page size of the server when the request carries no rows
DEFAULT_ROWS == 10

-----------------------------------------------------------------------------
(* Option<u64>: None is the empty tuple, Some(x) the one-element tuple.    *)

None == <<>>

Some(x) == <<x>>

UnwrapOr(o, d) == IF o = None THEN d ELSE o[1]

Min(a, b) == IF a <= b THEN a ELSE b

Max(a, b) == IF a >= b THEN a ELSE b

\* ceil(a / b) for b > 0
Ceil(a, b) == (a + b - 1) \div b

-----------------------------------------------------------------------------
(* The backend and its response envelopes.                                 *)

\* the messages a server may put in an error.msg envelope
Msgs == {"syntax error in query", "too many requests"}

\* the text serde_json reports when data["response"] is null
NullResponse == "invalid type: null, expected struct Response"

\* how the backend answers one request: a {response: ...} envelope, an
\* {error: {msg}} envelope, a body that is JSON of neither shape, or a
\* failure of the transport
ReplyKinds == {"response", "error", "malformed", "transport"}

\* the request on the wire: the serialized Search (rows and start are
\* skipped when None)
Request(q) == [rows |-> q.rows, start |-> q.start]

\* the page a backend that holds n documents and returns at most c of them
\* at a time sends for a request: it echoes the requested start and returns
\* the documents from that offset on, at most as many as requested
PageCap(n, req, c) ==
    LET s == UnwrapOr(req.start, 0)
        r == Min(UnwrapOr(req.rows, DEFAULT_ROWS), c)
    IN  [numFound |-> n, start |-> s, first |-> s,
         len |-> Max(0, Min(r, n - s))]

\* the page of a backend that returns up to MAX_ROWS documents at a time
Page(n, req) == PageCap(n, req, MAX_ROWS)

NoPage == [numFound |-> 0, start |-> 0, first |-> 0, len |-> 0]

\* the envelope the backend sends for a request, given the kind of its reply
Envelope(n, c, req, kind, msg) ==
    [kind |-> kind,
     response |-> IF kind = "response" THEN PageCap(n, req, c) ELSE NoPage,
     msg |-> IF kind = "error" THEN msg ELSE ""]

-----------------------------------------------------------------------------
(* Search: the builder and its direct send().                              *)

\* Search::new
NewSearch == [rows |-> None, start |-> None]

\* Search::send: Result<Response<T>>.  blocking_get(..)? and .json()? fail
\* with a reqwest error; then data["response"] is deserialized, which fails
\* with a serde_json error when the envelope holds no well-formed response
\* (data["response"] is null for an error.msg envelope).
Search_send(env) ==
    CASE env.kind = "transport" ->
            [ok |-> FALSE, err |-> "Reqwest", msg |-> "transport",
             response |-> NoPage]
      [] env.kind = "response" ->
            [ok |-> TRUE, err |-> "", msg |-> "", response |-> env.response]
      [] OTHER ->
            [ok |-> FALSE, err |-> "JsonError", msg |-> NullResponse,
             response |-> NoPage]

-----------------------------------------------------------------------------
(* SearchIter: the blocking paginated iterator.                            *)

NoDocs == [first |-> 0, len |-> 0]

\* Search::iter
NewIter(q) ==
    [num_found |-> 0, start |-> UnwrapOr(q.start, 0), limit |-> None,
     docs |-> NoDocs]

\* page_size with the limit forgotten: the builder's rows alone
page_size_rows(i, q) == Min(MAX_ROWS, UnwrapOr(q.rows, MAX_ROWS))

\* SearchIter::page_size
page_size(i, q) ==
    Min(MAX_ROWS,
        IF i.limit # None THEN i.limit[1] ELSE UnwrapOr(q.rows, MAX_ROWS))

\* the end-of-sequence check with > for >= on the total
AtEnd_gt(i) ==
    /\ i.start > 0
    /\ \/ i.start > i.num_found
       \/ (i.limit # None /\ i.start >= i.limit[1])

\* the end-of-sequence check applied to a fresh iterator too
AtEnd_fresh(i) ==
    \/ i.start >= i.num_found
    \/ (i.limit # None /\ i.start >= i.limit[1])

\* the end-of-sequence check without the total: only the limit ends it
AtEnd_limit(i) ==
    /\ i.start > 0
    /\ i.limit # None
    /\ i.start >= i.limit[1]

\* the end-of-sequence check of try_next.  self.limit.unwrap_or(u64::MAX) is
\* never reached by a cursor when the limit is None.
AtEnd(i) ==
    /\ i.start > 0
    /\ \/ i.start >= i.num_found
       \/ (i.limit # None /\ i.start >= i.limit[1])

\* a pop that leaves the cursor where it was
Pop_keep(i) ==
    [i EXCEPT !.docs = [first |-> i.docs.first + 1, len |-> i.docs.len - 1]]

\* try_next, a buffered document: self.docs.next() and self.start += 1
Pop(i) ==
    [i EXCEPT !.start = i.start + 1,
              !.docs = [first |-> i.docs.first + 1, len |-> i.docs.len - 1]]

\* a fetch that leaves the cursor at the start of the page
Refill_nostep(i, response) ==
    [i EXCEPT !.num_found = response.numFound,
              !.start = response.start,
              !.docs = IF response.len > 0
                       THEN [first |-> response.first + 1,
                             len |-> response.len - 1]
                       ELSE [first |-> response.first, len |-> 0]]

\* a fetch that moves the cursor past the whole page at once
Refill_whole(i, response) ==
    [i EXCEPT !.num_found = response.numFound,
              !.start = response.start + Max(1, response.len),
              !.docs = IF response.len > 0
                       THEN [first |-> response.first + 1,
                             len |-> response.len - 1]
                       ELSE [first |-> response.first, len |-> 0]]

\* a fetch that keeps the total of the first page
Refill_first(i, response) ==
    [i EXCEPT !.num_found = IF i.num_found = 0 THEN response.numFound
                            ELSE i.num_found,
              !.start = response.start + 1,
              !.docs = IF response.len > 0
                       THEN [first |-> response.first + 1,
                             len |-> response.len - 1]
                       ELSE [first |-> response.first, len |-> 0]]

\* try_next, after a successful fetch: the total, the cursor and the buffer
\* are taken from the response, and self.docs.next() takes the first
\* document of the page, if there is one
Refill(i, response) ==
    [i EXCEPT !.num_found = response.numFound,
              !.start = response.start + 1,
              !.docs = IF response.len > 0
                       THEN [first |-> response.first + 1,
                             len |-> response.len - 1]
                       ELSE [first |-> response.first, len |-> 0]]

\* the request of try_next: a clone of the query with start and rows set
PageRequest(i, q) ==
    Request([q EXCEPT !.start = Some(i.start),
                      !.rows = Some(page_size(i, q))])

\* the items Iterator::next returns
NoItem == [kind |-> "none", doc |-> 0, err |-> "", msg |-> ""]

DocItem(d) == [kind |-> "doc", doc |-> d, err |-> "", msg |-> ""]

EndItem == [kind |-> "end", doc |-> 0, err |-> "", msg |-> ""]

ErrItem(res) == [kind |-> "err", doc |-> 0, err |-> res.err, msg |-> res.msg]

\* collect::<Result<Vec<_>>>() consumes items until the first None or the
\* first Err; yielded counts the documents collected, ordered says that the
\* k-th of them was the document at offset base + k - 1
NewDrain ==
    [state |-> "running", yielded |-> 0, ordered |-> TRUE, requests |-> 0,
     err |-> "", msg |-> ""]

\* a consumer that drops the Err items and goes on to the next item, as
\* filter_map(Result::ok).collect() would
Collect_lenient(d, base, itm, requests) ==
    IF d.state # "running" THEN d
    ELSE CASE itm.kind = "doc" ->
                 [d EXCEPT !.yielded = d.yielded + 1,
                           !.ordered = d.ordered /\ itm.doc = base + d.yielded,
                           !.requests = requests]
           [] itm.kind = "end" ->
                 [d EXCEPT !.state = "done", !.requests = requests]
           [] OTHER -> [d EXCEPT !.requests = requests]

\* collect::<Result<Vec<_>>>() given one more item
Collect(d, base, itm, requests) ==
    IF d.state # "running" THEN d
    ELSE CASE itm.kind = "doc" ->
                 [d EXCEPT !.yielded = d.yielded + 1,
                           !.ordered = d.ordered /\ itm.doc = base + d.yielded,
                           !.requests = requests]
           [] itm.kind = "end" ->
                 [d EXCEPT !.state = "done", !.requests = requests]
           [] OTHER ->
                 [d EXCEPT !.state = "failed", !.requests = requests,
                           !.err = itm.err, !.msg = itm.msg]

\* a page request that sets start and rows on self.query itself
Snapshot_inplace(i, q) ==
    [q EXCEPT !.start = Some(i.start), !.rows = Some(page_size(i, q))]

\* the builder snapshot self.query after a page request: start and rows are
\* set on self.query.clone(), the snapshot itself is left as it was
Snapshot(i, q) == q

\* try_next without its first step: the buffer is not consulted and a page
\* is requested although documents are still buffered
try_next_refetch(i, q, env) ==
    IF AtEnd(i)
    THEN [it |-> i, query |-> q, item |-> EndItem, fetched |-> FALSE]
    ELSE LET res == Search_send(env)
         IN  IF ~res.ok
             THEN [it |-> i, query |-> q, item |-> ErrItem(res),
                   fetched |-> TRUE]
             ELSE [it |-> Refill(i, res.response), query |-> q,
                   item |-> IF res.response.len > 0
                            THEN DocItem(res.response.first)
                            ELSE EndItem,
                   fetched |-> TRUE]

\* try_next with the cursor moved past the page before the result of the
\* request is looked at: a failed page is skipped
try_next_skip(i, q, env) ==
    IF i.docs.len > 0
    THEN [it |-> Pop(i), query |-> q, item |-> DocItem(i.docs.first),
          fetched |-> FALSE]
    ELSE IF AtEnd(i)
    THEN [it |-> i, query |-> q, item |-> EndItem, fetched |-> FALSE]
    ELSE LET res == Search_send(env)
         IN  IF ~res.ok
             THEN [it |-> [i EXCEPT !.start = i.start + page_size(i, q)],
                   query |-> q, item |-> ErrItem(res), fetched |-> TRUE]
             ELSE [it |-> Refill(i, res.response), query |-> q,
                   item |-> IF res.response.len > 0
                            THEN DocItem(res.response.first)
                            ELSE EndItem,
                   fetched |-> TRUE]

\* SearchIter::try_next against the envelope env the backend would send for
\* the page request: the iterator afterwards (its builder snapshot apart),
\* the item Iterator::next makes of the result, and whether the request was
\* transmitted
try_next(i, q, env) ==
    IF i.docs.len > 0
    THEN [it |-> Pop(i), query |-> q, item |-> DocItem(i.docs.first),
          fetched |-> FALSE]
    ELSE IF AtEnd(i)
    THEN [it |-> i, query |-> q, item |-> EndItem, fetched |-> FALSE]
    ELSE LET res == Search_send(env)
         IN  IF ~res.ok
             THEN [it |-> i, query |-> Snapshot(i, q), item |-> ErrItem(res),
                   fetched |-> TRUE]
             ELSE [it |-> Refill(i, res.response), query |-> Snapshot(i, q),
                   item |-> IF res.response.len > 0
                            THEN DocItem(res.response.first)
                            ELSE EndItem,
                   fetched |-> TRUE]

-----------------------------------------------------------------------------
(* Serialization of the query parameters.                                  *)

\* A string is the sequence of its tokens: field names, "," and " ".

RECURSIVE Join(_, _)
\* <[String]>::join(sep)
Join(parts, sep) ==
    IF parts = <<>> THEN <<>>
    ELSE IF Len(parts) = 1 THEN parts[1]
    ELSE parts[1] \o sep \o Join(Tail(parts), sep)

\* String::to_string
String_to_string(str) == str

RECURSIVE u64_to_string(_)
\* u64::to_string: the decimal digits
u64_to_string(n) ==
    IF n < 10 THEN <<n>> ELSE u64_to_string(n \div 10) \o <<n % 10>>

RECURSIVE u64_from_str(_)
\* u64::from_str of a string of decimal digits
u64_from_str(str) ==
    IF str = <<>> THEN 0
    ELSE 10 * u64_from_str(SubSeq(str, 1, Len(str) - 1)) + str[Len(str)]

\* Sort::asc
Sort_asc(field) == [dir |-> "Asc", field |-> field]

\* Sort::desc
Sort_desc(field) == [dir |-> "Desc", field |-> field]

\* a bare field name that becomes an ascending sort
Sort_from_asc(str) == [dir |-> "Asc", field |-> str]

\* From<&str> for Sort
Sort_from(str) == [dir |-> "Desc", field |-> str]

\* ToString for Sort
Sort_to_string(sort) ==
    IF sort.dir = "Asc" THEN sort.field \o <<" ", "asc">>
    ELSE sort.field \o <<" ", "desc">>

\* the argument of a sort() call, converted by Into<Sort>
Into_Sort(arg) ==
    CASE arg.kind = "asc" -> Sort_asc(arg.field)
      [] arg.kind = "desc" -> Sort_desc(arg.field)
      [] OTHER -> Sort_from(arg.field)

\* T::to_string for the two types T the lists are made of
to_string(T, x) ==
    IF T = "Sort" THEN Sort_to_string(x) ELSE String_to_string(x)

\* comma_separated::<T>: every item converted with to_string, joined with ","
comma_separated(T, items) ==
    Join([i \in 1 .. Len(items) |-> to_string(T, items[i])], <<",">>)

\* the fields requested when fl() was never called
FlDefault ==
    <<"author", ",", "first_author", ",", "bibcode", ",", "id", ",", "year",
      ",", "title">>

\* fl_defaults
fl_defaults(items) ==
    IF items = <<>> THEN FlDefault
    ELSE comma_separated("String", items)

\* an fl() that replaces the list
Search_fl_replace(p, field) == [p EXCEPT !.fl = <<field>>]

\* Search::fl
Search_fl(p, field) == [p EXCEPT !.fl = Append(p.fl, field)]

\* Search::sort
Search_sort(p, arg) == [p EXCEPT !.sort = Append(p.sort, Into_Sort(arg))]

\* an fq() that keeps the first filter
Search_fq_first(p, filter) ==
    IF p.fq = None THEN [p EXCEPT !.fq = Some(filter)] ELSE p

\* Search::fq
Search_fq(p, filter) == [p EXCEPT !.fq = Some(filter)]

\* an Option<u64> field with skip_serializing_if = "Option::is_none"
OptionalKey(key, value) ==
    IF value = None THEN <<>> ELSE <<<<key, u64_to_string(value[1])>>>>

\* an Option<String> field with skip_serializing_if = "Option::is_none"
OptionalString(key, value) ==
    IF value = None THEN <<>> ELSE <<<<key, value[1]>>>>

\* #[derive(Serialize)] for Search: the key/value pairs transmitted, in the
\* order of the fields
Serialize(q, p) ==
    <<<<"q", p.q>>>>
    \o OptionalKey("rows", q.rows)
    \o OptionalKey("start", q.start)
    \o <<<<"fl", fl_defaults(p.fl)>>>>
    \o OptionalString("fq", p.fq)
    \o (IF p.sort = <<>> THEN <<>>
        ELSE <<<<"sort", comma_separated("Sort", p.sort)>>>>)

\* the value transmitted for a key, if the key is transmitted
Get(w, key) ==
    LET at == {i \in 1 .. Len(w) : w[i][1] = key}
    IN  IF at = {} THEN None ELSE Some(w[CHOOSE i \in at : TRUE][2])

\* nothing has been transmitted
NoWire == <<>>

-----------------------------------------------------------------------------
(* The Export builder and its serialized form.                             *)

\* the variants of FormatType the exploration uses
FormatTypes == {"BibTeX", "EndNote", "Custom"}

\* format!("{:?}", format_type).to_lowercase()
FormatType_lowercase(format_type) ==
    CASE format_type = "BibTeX" -> "bibtex"
      [] format_type = "EndNote" -> "endnote"
      [] OTHER -> "custom"

\* Export::new
Export_new(format_type, bibcode) ==
    [format_type |-> format_type, bibcode |-> bibcode, sort |-> <<>>,
     format |-> None]

\* Export::sort
Export_sort(e, arg) == [e EXCEPT !.sort = Append(e.sort, Into_Sort(arg))]

\* Export::format
Export_format(e, format) == [e EXCEPT !.format = Some(format)]

\* #[derive(Serialize)] for Export: the members of the JSON body, in the
\* order of the fields; client and format_type are skipped
Export_serialize(e) ==
    <<<<"bibcode", e.bibcode>>>>
    \o (IF e.sort = <<>> THEN <<>>
        ELSE <<<<"sort", comma_separated("Sort", e.sort)>>>>)
    \o OptionalString("format", e.format)

\* the path Export::send posts to
Export_path(e) == <<"export/", FormatType_lowercase(e.format_type)>>

\* Export::send: the POST request dispatched and, given the kind of the
\* backend's reply, whether send returns Ok
Export_send(e, kind) ==
    [path |-> Export_path(e), body |-> Export_serialize(e),
     ok |-> kind = "response"]

\* no Export builder has been made
NoExport == Export_new("Custom", <<>>)

\* nothing has been posted to the export endpoint
NoPost == [n |-> 0, path |-> <<>>, body |-> <<>>, ok |-> FALSE]

-----------------------------------------------------------------------------
(* The state machine.                                                      *)

SmallDocs == 0 .. MaxDocs

NumDocsSet == SmallDocs \cup (MAX_ROWS .. MAX_ROWS + Over)

RowsSet == (1 .. MaxRows) \cup {MAX_ROWS, MAX_ROWS + 1}

StartSet == 0 .. MaxStart

LimitSet == (0 .. MaxLimit) \cup {MAX_ROWS, MAX_ROWS + 1}

\* the page sizes a backend may cut its pages down to
CapSet == (1 .. MaxRows) \cup {MAX_ROWS}

NoSend ==
    [req |-> Request(NewSearch), kind |-> "none", msg |-> "",
     result |-> [ok |-> FALSE, err |-> "", msg |-> "", response |-> NoPage]]

\* the history of an iterator: the advances made, the documents yielded,
\* whether an empty page was received, and the numFound of the last
\* response, of the first response, and the greatest of all responses
NewHist ==
    [adv |-> 0, yielded |-> 0, empty |-> FALSE, total |-> None,
     first |-> None, peak |-> 0]

\* the history after an advance that returned itm; res is the result of the
\* page request if one was transmitted
Record(h, itm, fetched, res) ==
    [adv |-> h.adv + 1,
     yielded |-> IF itm.kind = "doc" THEN h.yielded + 1 ELSE h.yielded,
     empty |-> h.empty \/ (fetched /\ res.ok /\ res.response.len = 0),
     total |-> IF fetched /\ res.ok THEN Some(res.response.numFound)
               ELSE h.total,
     first |-> IF fetched /\ res.ok /\ h.first = None
               THEN Some(res.response.numFound)
               ELSE h.first,
     peak |-> IF fetched /\ res.ok THEN Max(h.peak, res.response.numFound)
              ELSE h.peak]

\* no stream has been made
NoStream ==
    [state |-> "idle", offset |-> 0, per_page |-> 0, num |-> 0,
     docs |-> NoDocs, inflight |-> 0, item |-> NoItem, nreq |-> 0,
     lastReq |-> Request(NewSearch), yielded |-> 0, ordered |-> TRUE,
     extra |-> 0]

\* no second iterator has been made
NoTwin ==
    [on |-> FALSE, it |-> NewIter(NewSearch), query |-> NewSearch,
     item |-> NoItem, nreq |-> 0, lastReq |-> Request(NewSearch), adv |-> 0,
     extra |-> 0]

\* Search::new for the query string "star": fl and sort are empty lists, fq
\* is None
NewParams == [q |-> <<"star">>, fl |-> <<>>, fq |-> None, sort |-> <<>>]

\* Search::new
Search_new(q) == [NewParams EXCEPT !.q = q]

\* no setter has been called: the arguments of the fl(), fq() and sort()
\* calls, and whether rows() and start() were called
NewCalls ==
    [fl |-> <<>>, fq |-> <<>>, sort |-> <<>>, rows |-> FALSE, start |-> FALSE]

\* the variables of the stream, of the second iterator and of the builder's
\* remaining fields
asideVars == <<st, twin, params, calls>>

\* the options of the CLI that bear on the search and on the export, none
\* of them given
NoArgs == [limit |-> None, output |-> None, format |-> None, sort |-> None]

\* the CLI has not been started: args is the command line as given, config
\* the config file if it could be loaded, opts the options main works with
NoCli == [stage |-> "off", args |-> NoArgs, config |-> None, opts |-> NoArgs]

\* the closure main maps over the iterator in the export branch,
\* |doc| Ok(doc?.bibcode.with_context(|| "could not load bibcodes")?):
\* gaps holds the offsets of the documents whose bibcode is None
bibcode_of(gaps, itm) ==
    IF itm.kind = "doc" /\ itm.doc \in gaps
    THEN ErrItem([err |-> "Context", msg |-> "could not load bibcodes"])
    ELSE itm

\* the item collect() receives: the iterator's own item when the library
\* is used directly, the closure's result in the export branch of the CLI
Consumed(itm) == IF cli.stage = "off" THEN itm ELSE bibcode_of(noBib, itm)

\* the variables of the Export builder and of the CLI
outerVars == <<noBib, cli, xpc, export, post>>

\* the variables of the iterator and of its consumer
iterVars == <<it, fresh, item, nreq, lastReq, drain, extra, lastReply, hist>>

InitBackend(docs, caps, gaps) ==
    /\ numDocs \in docs
    /\ noBib \in gaps
    /\ cli = NoCli
    /\ xpc = "none"
    /\ export = NoExport
    /\ post = NoPost
    /\ cap \in caps
    /\ pc = "builder"
    /\ query = NewSearch
    /\ it = NewIter(NewSearch)
    /\ fresh = TRUE
    /\ item = NoItem
    /\ nreq = 0
    /\ lastReq = Request(NewSearch)
    /\ drain = NewDrain
    /\ extra = 0
    /\ lastReply = [kind |-> "none", msg |-> ""]
    /\ faults = 0
    /\ sent = NoSend
    /\ hist = NewHist
    /\ st = NoStream
    /\ twin = NoTwin
    /\ params = NewParams
    /\ calls = NewCalls
    /\ wire = NoWire

\* every document of the backend has a bibcode
InitWith(docs, caps) == InitBackend(docs, caps, {{}})

Init == InitWith(NumDocsSet, {MAX_ROWS})

InitFaulty == InitWith(SmallDocs, {MAX_ROWS})

\* Search::rows
Rows(n) ==
    /\ pc = "builder"
    /\ query' = [query EXCEPT !.rows = Some(n)]
    /\ calls' = [calls EXCEPT !.rows = TRUE]
    /\ UNCHANGED <<outerVars,
                   st, twin, params, wire, numDocs, cap, pc, iterVars, faults,
                   sent>>

\* Search::start
Start(n) ==
    /\ pc = "builder"
    /\ query' = [query EXCEPT !.start = Some(n)]
    /\ calls' = [calls EXCEPT !.start = TRUE]
    /\ UNCHANGED <<outerVars,
                   st, twin, params, wire, numDocs, cap, pc, iterVars, faults,
                   sent>>

\* Search::send called on the builder: one request, as the builder stands
Send(kind, msg) ==
    /\ pc = "builder"
    /\ pc' = "sent"
    /\ sent' = [req |-> Request(query), kind |-> kind, msg |-> msg,
                result |-> Search_send(Envelope(numDocs, cap, Request(query),
                                                kind, msg))]
    /\ wire' = Serialize(query, params)
    /\ UNCHANGED <<outerVars,
                   asideVars, numDocs, cap, query, iterVars, faults>>

\* Search::iter
Iter ==
    /\ pc = "builder"
    /\ pc' = "iter"
    /\ it' = NewIter(query)
    /\ UNCHANGED <<outerVars,
                   asideVars, wire, numDocs, cap, query, fresh, item, nreq,
                   lastReq, drain, extra, lastReply, hist, faults, sent>>

\* SearchIter::limit, called before the iterator is advanced (and before a
\* second iterator is made with the same limit)
Limit(n) ==
    /\ pc = "iter"
    /\ fresh
    /\ ~twin.on
    /\ it' = [it EXCEPT !.limit = Some(n)]
    /\ UNCHANGED <<outerVars,
                   asideVars, wire, numDocs, cap, pc, query, fresh, item,
                   nreq, lastReq, drain, extra, lastReply, hist, faults,
                   sent>>

\* Iterator::next: one advance, with the backend's reply to the page request
\* if one is transmitted.  collect() makes the advances until it returns;
\* the caller may advance the iterator up to MaxExtra times after that.
\* The page request, the envelope and the outcome of try_next are each
\* determined by the state before the advance.
Advance(kind, msg) ==
    /\ pc = "iter"
    /\ drain.state = "running" \/ extra < MaxExtra
    /\ \E req \in {PageRequest(it, query)} :
       \E env \in {Envelope(numDocs, cap, req, kind, msg)} :
       \E r \in {try_next(it, query, env)} :
           /\ kind = "response" \/ (r.fetched /\ faults < MaxFaults)
           /\ it' = r.it
           /\ item' = r.item
           /\ query' = r.query
           /\ nreq' = IF r.fetched THEN nreq + 1 ELSE nreq
           /\ lastReq' = IF r.fetched THEN req ELSE lastReq
           /\ lastReply' = IF r.fetched THEN [kind |-> kind, msg |-> msg]
                           ELSE lastReply
           /\ drain' = Collect(drain, UnwrapOr(query.start, 0),
                               Consumed(r.item), nreq')
           /\ extra' = IF drain.state = "running" THEN extra ELSE extra + 1
           /\ faults' = IF kind = "response" THEN faults ELSE faults + 1
           /\ hist' = Record(hist, r.item, r.fetched, Search_send(env))
    /\ fresh' = FALSE
    /\ UNCHANGED <<outerVars, asideVars, wire, numDocs, cap, pc, sent>>

\* the backend answers every request with a well-formed response envelope
Next ==
    \/ \E n \in RowsSet : Rows(n)
    \/ \E n \in StartSet : Start(n)
    \/ Send("response", "")
    \/ Iter
    \/ \E n \in LimitSet : Limit(n)
    \/ Advance("response", "")

Spec == Init /\ [][Next]_vars

\* the backend may fail up to MaxFaults requests
Fail ==
    \/ \E m \in Msgs : Send("error", m) \/ Advance("error", m)
    \/ \E k \in {"malformed", "transport"} : Send(k, "") \/ Advance(k, "")

NextFaulty == Next \/ Fail

SpecFaulty == InitFaulty /\ [][NextFaulty]_vars

-----------------------------------------------------------------------------
(* A live backend: the index changes while the iterator runs.              *)

\* the iterator sees the backend only when it fetches a page: what the
\* backend does while documents are buffered is seen as one change made
\* when the buffer has run empty and the next advance will fetch a page
BetweenPages == pc = "iter" /\ nreq >= 1 /\ it.docs.len = 0 /\ ~AtEnd(it)

\* the index is rebuilt between two page requests: it now holds n documents
Reindex(n) ==
    /\ BetweenPages
    /\ n # numDocs
    /\ numDocs' = n
    /\ UNCHANGED <<outerVars,
                   asideVars, wire, cap, pc, query, iterVars, faults, sent>>

\* the backend changes the most documents it returns in one page
Throttle(c) ==
    /\ BetweenPages
    /\ c # cap
    /\ cap' = c
    /\ UNCHANGED <<outerVars,
                   asideVars, wire, numDocs, pc, query, iterVars, faults,
                   sent>>

\* the caller advances the iterator at most MaxAdvances times
AdvanceLive ==
    /\ hist.adv < MaxAdvances
    /\ Advance("response", "")

InitLive == InitWith(SmallDocs, CapSet)

NextLive ==
    \/ \E n \in 1 .. MaxRows : Rows(n)
    \/ \E n \in StartSet : Start(n)
    \/ Iter
    \/ \E n \in 0 .. MaxLimit : Limit(n)
    \/ AdvanceLive
    \/ \E n \in SmallDocs : Reindex(n)
    \/ \E c \in CapSet : Throttle(c)

SpecLive == InitLive /\ [][NextLive]_vars

\* the caller keeps advancing the iterator
SpecLiveFair == SpecLive /\ WF_vars(AdvanceLive)

-----------------------------------------------------------------------------
(* Search::stream: the asynchronous stream of documents.                   *)

\* poll_next returned Poll::Pending: the page request is in flight
PendingItem == [kind |-> "pending", doc |-> 0, err |-> "", msg |-> ""]

\* Search::stream: offset and per_page are taken from the builder
NewStream(q) ==
    [NoStream EXCEPT !.state = "running",
                     !.offset = UnwrapOr(q.start, 0),
                     !.per_page = UnwrapOr(q.rows, DEFAULT_ROWS)]

\* a request made before `offset += num` has taken effect: it asks for the
\* page at the offset of the page before
StreamRequest_stale(s, q) ==
    Request([q EXCEPT !.start = Some(s.offset), !.rows = Some(s.per_page)])

\* the request of the stream's loop body, made after `offset += num` for the
\* page before: a clone of the builder with start and rows set
StreamRequest(s, q) ==
    Request([q EXCEPT !.start = Some(s.offset + s.num),
                      !.rows = Some(s.per_page)])

\* the stream yields document d, the next of the current page
Yield(s, base, d, rest) ==
    [s EXCEPT !.item = DocItem(d),
              !.docs = rest,
              !.ordered = s.ordered /\ d = base + s.yielded,
              !.yielded = s.yielded + 1]

\* poll_next while no request is in flight: a finished stream returns None,
\* a buffered document is yielded, and otherwise the loop comes round:
\* offset += num, the next page is requested and the poll is Pending
stream_poll(s, q, base) ==
    IF s.state = "done"
    THEN [s EXCEPT !.item = EndItem, !.extra = s.extra + 1]
    ELSE IF s.docs.len > 0
    THEN Yield(s, base, s.docs.first,
               [first |-> s.docs.first + 1, len |-> s.docs.len - 1])
    ELSE [s EXCEPT !.offset = s.offset + s.num,
                   !.num = 0,
                   !.inflight = s.inflight + 1,
                   !.nreq = s.nreq + 1,
                   !.lastReq = StreamRequest(s, q),
                   !.item = PendingItem]

\* a stream that yields the error and goes on: the failed page is requested
\* again at the next poll
stream_resume_retry(s, base, res) ==
    LET t == [s EXCEPT !.inflight = s.inflight - 1]
    IN  IF ~res.ok
        THEN [t EXCEPT !.item = ErrItem(res)]
        ELSE IF res.response.len = 0
        THEN [t EXCEPT !.state = "done", !.item = EndItem]
        ELSE Yield([t EXCEPT !.num = res.response.len], base,
                   res.response.first,
                   [first |-> res.response.first + 1,
                    len |-> res.response.len - 1])

\* poll_next when the reply has arrived: `?` ends the stream with the error,
\* an empty page breaks the loop, another page yields its first document
stream_resume(s, base, res) ==
    LET t == [s EXCEPT !.inflight = s.inflight - 1]
    IN  IF ~res.ok
        THEN [t EXCEPT !.state = "done", !.item = ErrItem(res)]
        ELSE IF res.response.len = 0
        THEN [t EXCEPT !.state = "done", !.item = EndItem]
        ELSE Yield([t EXCEPT !.num = res.response.len], base,
                   res.response.first,
                   [first |-> res.response.first + 1,
                    len |-> res.response.len - 1])

\* Search::stream, called on a clone of the builder once collect() has
\* returned
Stream ==
    /\ pc = "iter"
    /\ drain.state # "running"
    /\ extra = 0
    /\ pc' = "stream"
    /\ st' = NewStream(query)
    /\ UNCHANGED <<outerVars,
                   numDocs, cap, query, iterVars, faults, sent, twin, params,
                   calls, wire>>

\* the stream is polled while no request is in flight; it is polled up to
\* MaxExtra times after it has finished
Poll ==
    /\ pc = "stream"
    /\ st.inflight = 0
    /\ st.state = "done" => st.extra < MaxExtra
    /\ st' = stream_poll(st, query, UnwrapOr(query.start, 0))
    /\ UNCHANGED <<outerVars,
                   numDocs, cap, pc, query, iterVars, faults, sent, twin,
                   params, calls, wire>>

\* the backend's reply arrives and the stream is polled again
Resume(kind, msg) ==
    /\ pc = "stream"
    /\ st.inflight > 0
    /\ kind = "response" \/ faults < MaxFaults
    /\ st' = stream_resume(st, UnwrapOr(query.start, 0),
                           Search_send(Envelope(numDocs, cap, st.lastReq,
                                                kind, msg)))
    /\ faults' = IF kind = "response" THEN faults ELSE faults + 1
    /\ UNCHANGED <<outerVars,
                   numDocs, cap, pc, query, iterVars, sent, twin, params,
                   calls, wire>>

\* backends of up to DEFAULT_ROWS + 1 documents: the stream's default page
\* size is in reach
StreamDocs == SmallDocs \cup {DEFAULT_ROWS, DEFAULT_ROWS + 1}

InitStream == InitWith(StreamDocs, {MAX_ROWS})

NextStream ==
    \/ NextFaulty
    \/ Stream
    \/ Poll
    \/ Resume("response", "")
    \/ \E m \in Msgs : Resume("error", m)
    \/ \E k \in {"malformed", "transport"} : Resume(k, "")

SpecStream == InitStream /\ [][NextStream]_vars

-----------------------------------------------------------------------------
(* Two iterators made from clones of one builder.                          *)

\* builder.clone().iter(), with the same limit: a second iterator that owns
\* its own copy of the builder
Twin ==
    /\ pc = "iter"
    /\ fresh
    /\ ~twin.on
    /\ twin' = [NoTwin EXCEPT !.on = TRUE, !.it = it, !.query = query]
    /\ UNCHANGED <<outerVars,
                   numDocs, cap, pc, query, iterVars, faults, sent, st,
                   params, calls, wire>>

\* Iterator::next on the second iterator; it is advanced up to MaxExtra times
\* after it has returned end-of-sequence
AdvanceTwin ==
    /\ pc = "iter"
    /\ twin.on
    /\ twin.item.kind = "end" => twin.extra < MaxExtra
    /\ \E req \in {PageRequest(twin.it, twin.query)} :
       \E env \in {Envelope(numDocs, cap, req, "response", "")} :
       \E r \in {try_next(twin.it, twin.query, env)} :
           twin' = [twin EXCEPT
                      !.it = r.it,
                      !.item = r.item,
                      !.query = r.query,
                      !.nreq = IF r.fetched THEN twin.nreq + 1 ELSE twin.nreq,
                      !.lastReq = IF r.fetched THEN req ELSE twin.lastReq,
                      !.adv = twin.adv + 1,
                      !.extra = IF twin.item.kind = "end" THEN twin.extra + 1
                                ELSE twin.extra]
    /\ UNCHANGED <<outerVars,
                   numDocs, cap, pc, query, iterVars, faults, sent, st,
                   params, calls, wire>>

InitPair == InitWith(SmallDocs, {MAX_ROWS})

NextPair ==
    \/ \E n \in 1 .. MaxRows : Rows(n)
    \/ \E n \in StartSet : Start(n)
    \/ Iter
    \/ \E n \in 0 .. MaxLimit : Limit(n)
    \/ Advance("response", "")
    \/ Twin
    \/ AdvanceTwin

SpecPair == InitPair /\ [][NextPair]_vars

-----------------------------------------------------------------------------
(* Building a query and sending it.                                        *)

\* the field names passed to fl(): one holds a comma, one is empty
FlFields == {<<"id">>, <<"bibcode">>, <<"id", ",", "author">>, <<>>}

\* the arguments passed to sort(): Sort::asc(..), Sort::desc(..) or a bare
\* field name
SortArgs ==
    [kind : {"asc", "desc", "bare"}, field : {<<"date">>, <<"citation_count">>}]

\* Search::fl
Fl(field) ==
    /\ pc = "builder"
    /\ Len(params.fl) < MaxFl
    /\ params' = Search_fl(params, field)
    /\ calls' = [calls EXCEPT !.fl = Append(calls.fl, field)]
    /\ UNCHANGED <<outerVars,
                   numDocs, cap, pc, query, iterVars, faults, sent, st, twin,
                   wire>>

\* Search::sort
Sort(arg) ==
    /\ pc = "builder"
    /\ Len(params.sort) < MaxSort
    /\ params' = Search_sort(params, arg)
    /\ calls' = [calls EXCEPT !.sort = Append(calls.sort, arg)]
    /\ UNCHANGED <<outerVars,
                   numDocs, cap, pc, query, iterVars, faults, sent, st, twin,
                   wire>>

\* Search::fq
Fq(filter) ==
    /\ pc = "builder"
    /\ params' = Search_fq(params, filter)
    /\ calls' = [calls EXCEPT !.fq = Append(calls.fq, filter)]
    /\ UNCHANGED <<outerVars,
                   numDocs, cap, pc, query, iterVars, faults, sent, st, twin,
                   wire>>

\* Ads::search: a new builder for the query string q
NewQuery(q) ==
    /\ pc = "builder"
    /\ params' = Search_new(q)
    /\ query' = NewSearch
    /\ calls' = NewCalls
    /\ UNCHANGED <<outerVars,
                   numDocs, cap, pc, iterVars, faults, sent, st, twin, wire>>

InitWire == InitWith({1}, {MAX_ROWS})

NextWire ==
    \/ \E field \in FlFields : Fl(field)
    \/ \E arg \in SortArgs : Sort(arg)
    \/ Send("response", "")

SpecWire == InitWire /\ [][NextWire]_vars

\* the query strings and the filters
QueryStrings == {<<"star">>, <<"au:", "hogg">>}

FilterStrings == {<<"year:", 2, 0>>, <<"au:", "hogg">>}

\* the arguments of rows() and start(): of one and of several digits
FormRows == {MaxRows, MAX_ROWS}

FormStarts == {0, DEFAULT_ROWS}

\* the number of fl(), fq() and sort() calls made on the builder
CallCount == Len(calls.fl) + Len(calls.fq) + Len(calls.sort)

\* a builder is made with any of its setters, up to MaxCalls calls of fl(),
\* fq() and sort(), and sent
NextForm ==
    \/ \E q \in QueryStrings : NewQuery(q)
    \/ \E n \in FormRows : Rows(n)
    \/ \E n \in FormStarts : Start(n)
    \/ CallCount < MaxCalls /\ \E field \in FlFields : Fl(field)
    \/ CallCount < MaxCalls /\ \E filter \in FilterStrings : Fq(filter)
    \/ CallCount < MaxCalls /\ \E arg \in SortArgs : Sort(arg)
    \/ Send("response", "")

SpecForm == InitWire /\ [][NextForm]_vars

-----------------------------------------------------------------------------
(* Pagination against a static backend (Spec).                             *)

\* an iterator with start unset, no limit and rows(P), 1 <= P <= MAX_ROWS,
\* that collect() has drained
C1_Case ==
    /\ pc = "iter"
    /\ query.start = None
    /\ it.limit = None
    /\ query.rows # None
    /\ query.rows[1] \in 1 .. MAX_ROWS
    /\ drain.state = "done"

\* C1 as stated: draining yields exactly the N documents, in ascending
\* offset order, each once, with exactly ceil(N/P) page requests.
C1_Original ==
    C1_Case =>
        /\ drain.yielded = numDocs
        /\ drain.ordered
        /\ drain.requests = Ceil(numDocs, query.rows[1])

\* C1, amended: draining yields exactly the N documents, in ascending offset
\* order, each once; it takes ceil(N/P) page requests when N >= 1 and one
\* page request when N = 0.
C1_Totality ==
    C1_Case =>
        /\ drain.yielded = numDocs
        /\ drain.ordered
        /\ drain.requests =
               IF numDocs = 0 THEN 1 ELSE Ceil(numDocs, query.rows[1])

\* a drain of several pages, the last one short
C1_Witness ==
    /\ C1_Case
    /\ drain.requests >= 2
    /\ numDocs % query.rows[1] # 0
    /\ drain.yielded = numDocs

\* an iterator over documents 0, 1, ... with a total limit L, 0 < L < N
LimitCase ==
    /\ pc = "iter"
    /\ UnwrapOr(query.start, 0) = 0
    /\ it.limit # None
    /\ 0 < it.limit[1]
    /\ it.limit[1] < numDocs

\* C2 as stated: with a total limit L, 0 < L < N, draining the iterator
\* yields exactly L documents.
C2_Original ==
    (LimitCase /\ drain.state = "done") => drain.yielded = it.limit[1]

\* C3: with a total limit L, 0 < L < N, the iterator issues exactly
\* ceil(L / MAX_ROWS) page requests, and none at an offset >= L.
C3_MinRequests ==
    (LimitCase /\ ~fresh) =>
        /\ nreq <= Ceil(it.limit[1], MAX_ROWS)
        /\ lastReq.start[1] < it.limit[1]
        /\ drain.state = "done" =>
               /\ nreq = Ceil(it.limit[1], MAX_ROWS)
               /\ drain.requests = nreq

\* a drained iterator whose limit took two page requests
C3_Witness ==
    /\ LimitCase
    /\ drain.state = "done"
    /\ it.limit[1] > MAX_ROWS
    /\ nreq = 2
    /\ extra > 0

\* C4 as stated: an iterator whose total limit is 0 yields nothing and
\* issues no request.
C4_Original ==
    (pc = "iter" /\ it.limit = Some(0)) =>
        /\ nreq = 0
        /\ drain.yielded = 0

\* C5: when the first page reports numFound = 0 and holds no documents, the
\* iterator ends after exactly one request without yielding a document, and
\* no later advance issues another request.
C5_ZeroResult ==
    (pc = "iter" /\ numDocs = 0 /\ nreq >= 1) =>
        /\ nreq = 1
        /\ item.kind = "end"
        /\ drain.state = "done"
        /\ drain.yielded = 0
        /\ drain.requests = 1

\* the empty result set, one request, and advances made after the end
C5_Witness ==
    /\ pc = "iter"
    /\ numDocs = 0
    /\ nreq = 1
    /\ it.num_found = 0
    /\ extra >= 1

\* C6: the first advance of a fresh iterator whose cursor is 0 issues a page
\* request at offset 0, whatever its limit and although num_found is 0.
C6_FirstFetch ==
    [][(pc = "iter" /\ fresh /\ it.start = 0 /\ ~fresh') =>
           /\ nreq' = 1
           /\ lastReq'.start = Some(0)]_vars

\* a first advance that fetched a page although cursor = 0 = num_found and
\* the limit is 0
C6_Witness ==
    /\ pc = "iter"
    /\ ~fresh
    /\ UnwrapOr(query.start, 0) = 0
    /\ it.limit = Some(0)
    /\ numDocs = 0
    /\ nreq = 1
    /\ extra = 0

-----------------------------------------------------------------------------
(* Failures of the backend (SpecFaulty).                                   *)

\* collect() has just stopped at a failure item: the backend answered the
\* second of the three page requests a drain needs (start unset, no limit,
\* rows(P)) with an error.msg envelope
C7_Case ==
    /\ pc = "iter"
    /\ query.start = None
    /\ it.limit = None
    /\ query.rows # None
    /\ query.rows[1] >= 1
    /\ Ceil(numDocs, query.rows[1]) = 3
    /\ drain.state = "failed"
    /\ drain.requests = 2
    /\ faults = 1
    /\ lastReply.kind = "error"
    /\ extra = 0

\* C7 as stated: the drain yields the documents of page 1, then exactly one
\* failure item that carries the server's message, and no further request
\* is issued.
C7_Original ==
    C7_Case =>
        /\ drain.yielded = query.rows[1]
        /\ drain.ordered
        /\ item.kind = "err"
        /\ drain.err = "AdsError"
        /\ drain.msg = lastReply.msg
        /\ nreq = 2

\* C8 as stated: send() gives a page for a response envelope, a remote
\* rejection carrying exactly the server's message for an error.msg
\* envelope, and a decode or transport failure otherwise.
C8_Original ==
    pc = "sent" =>
        /\ sent.kind = "response" =>
               /\ sent.result.ok
               /\ sent.result.response = Page(numDocs, sent.req)
        /\ sent.kind = "error" =>
               /\ ~sent.result.ok
               /\ sent.result.err = "AdsError"
               /\ sent.result.msg = sent.msg
        /\ sent.kind \in {"malformed", "transport"} =>
               /\ ~sent.result.ok
               /\ sent.result.err \in {"JsonError", "Reqwest"}

-----------------------------------------------------------------------------
(* The rows parameter on the wire (Spec).                                  *)

\* C9 as stated: every request transmitted with a rows parameter carries
\* rows <= MAX_ROWS, from the direct send and from the iterator.
C9_Original ==
    /\ (pc = "sent" /\ sent.req.rows # None) => sent.req.rows[1] <= MAX_ROWS
    /\ (pc = "iter" /\ nreq > 0) =>
           (lastReq.rows # None /\ lastReq.rows[1] <= MAX_ROWS)

\* the part of the limit that is left at cursor c, MAX_ROWS or more when no
\* limit is set
Remaining(c) == IF it.limit = None THEN MAX_ROWS ELSE it.limit[1] - c

\* C10 as stated: the page request at cursor c asks for
\* min(MAX_ROWS, remaining limit, builder rows or MAX_ROWS) rows.
C10_Original ==
    (pc = "iter" /\ nreq > 0) =>
        lastReq.rows =
            Some(Min(MAX_ROWS,
                     Min(Remaining(lastReq.start[1]),
                         UnwrapOr(query.rows, MAX_ROWS))))

-----------------------------------------------------------------------------
(* Advances, requests and the buffer (SpecFaulty, SpecStream).             *)

\* a step that is one advance of the iterator
IsAdvance == pc = "iter" /\ hist'.adv = hist.adv + 1

\* C11: every advance of the iterator issues at most one page request, and
\* none when the buffer is non-empty: it then returns the front buffered
\* document and takes it off the buffer.
C11_OneRequest ==
    [][IsAdvance =>
         /\ nreq' \in {nreq, nreq + 1}
         /\ it.docs.len > 0 =>
              /\ nreq' = nreq
              /\ item' = DocItem(it.docs.first)
              /\ it'.docs.len = it.docs.len - 1]_vars

\* the second document of the first page was returned from the buffer, and
\* more documents are buffered
C11_Witness ==
    /\ pc = "iter"
    /\ item.kind = "doc"
    /\ hist.yielded = 2
    /\ nreq = 1
    /\ it.docs.len > 0

\* a step in which the iterator transmits a page request that is not its first
NextFetch == pc = "iter" /\ nreq >= 1 /\ nreq' = nreq + 1

\* a step in which the stream transmits a page request that is not its first
NextStreamFetch == pc = "stream" /\ st.nreq >= 1 /\ st'.nreq = st.nreq + 1

\* the number of documents in the page the backend sends for request req
Served(req) == PageCap(numDocs, req, cap).len

\* C12 as stated: over any sequence of advances, those made after a failure
\* item included, every page request of a session starts at a strictly greater
\* offset than the request before it.
C12_Original ==
    [][/\ NextFetch => lastReq'.start[1] > lastReq.start[1]
       /\ NextStreamFetch => st'.lastReq.start[1] > st.lastReq.start[1]]_vars

\* C12, amended: requests are made one at a time; a request that follows a
\* successful one starts exactly where the page before it ended, which held
\* at least one document, so offsets increase strictly and no two fetches
\* overlap; a request of the iterator that follows a failed one is the failed
\* request again, at the same offset; the stream always follows a successful
\* request.
C12_Increasing ==
    [][/\ st'.inflight <= 1
       /\ NextFetch =>
            IF lastReply.kind = "response"
            THEN /\ Served(lastReq) >= 1
                 /\ lastReq'.start[1] = lastReq.start[1] + Served(lastReq)
            ELSE lastReq' = lastReq
       /\ NextStreamFetch =>
            /\ st.item.kind = "doc"
            /\ Served(st.lastReq) >= 1
            /\ st'.lastReq.start[1]
                 = st.lastReq.start[1] + Served(st.lastReq)]_vars

\* the iterator has made three requests, the second of which failed and
\* the third of which returned the last document
C12_Witness ==
    /\ pc = "iter"
    /\ nreq = 3
    /\ faults = 1
    /\ item.kind = "doc"
    /\ hist.yielded = numDocs
    /\ lastReq.start = Some(MaxRows)

-----------------------------------------------------------------------------
(* The end of the sequence (SpecFaulty).                                   *)

-----------------------------------------------------------------------------
(* The cursor (SpecLive).                                                  *)

\* the offset of the first document of the iterator's result set
Base == UnwrapOr(query.start, 0)

\* C14 as stated: the cursor always equals the absolute offset of the next
\* document not yet yielded.
C14_Original == pc = "iter" => it.start = Base + hist.yielded

\* C14, amended: until an empty page is received the cursor equals the
\* offset of the next document not yet yielded, the buffer begins with that
\* document, and the documents yielded so far are those at Base, Base + 1,
\* ... in this order, none skipped and none twice, also when pages are
\* shorter than requested; an empty page fetched at the cursor leaves the
\* cursor one past it, and the sequence has ended.
C14_Cursor ==
    pc = "iter" =>
      /\ drain.ordered
      /\ drain.yielded = hist.yielded
      /\ ~hist.empty =>
           /\ it.start = Base + hist.yielded
           /\ it.docs.len > 0 => it.docs.first = it.start
      /\ hist.empty =>
           /\ it.start = Base + hist.yielded + 1
           /\ it.docs.len = 0
           /\ item.kind = "end"

\* the backend returns one document per page although MaxRows were
\* requested, and two pages have been drained
C14_Witness ==
    /\ pc = "iter"
    /\ cap = 1
    /\ lastReq.rows = Some(MaxRows)
    /\ nreq = 3
    /\ hist.yielded = 3
    /\ item.kind = "doc"

-----------------------------------------------------------------------------
(* The total of a live backend (SpecLive).                                 *)

\* the iterator's buffer is empty and it has received a page
BufferDrained == IsAdvance /\ nreq >= 1 /\ it.docs.len = 0

\* the cursor has not reached the limit, if there is one
BelowLimit(i) == i.limit = None \/ i.start < i.limit[1]

\* C15: after every successful page fetch num_found is the numFound of that
\* response; once the buffer is drained, the iterator ends without a request
\* if that total is <= cursor, and otherwise (and below the limit) requests
\* the page at the cursor.
C15_LatestTotal ==
    [][/\ pc' = "iter" => it'.num_found = UnwrapOr(hist'.total, 0)
       /\ (BufferDrained /\ it.start >= UnwrapOr(hist.total, 0)) =>
            (item' = EndItem /\ nreq' = nreq)
       /\ (BufferDrained /\ it.start < UnwrapOr(hist.total, 0)
             /\ BelowLimit(it)) =>
            (nreq' = nreq + 1 /\ lastReq'.start = Some(it.start))]_vars

\* the first page reported 2 documents; the index grew and then shrank to 3,
\* and the iterator ended after the third document
C15_Witness ==
    /\ pc = "iter"
    /\ hist.first = Some(2)
    /\ hist.peak = MaxDocs
    /\ hist.total = Some(3)
    /\ hist.yielded = 3
    /\ item.kind = "end"
    /\ nreq = 3

-----------------------------------------------------------------------------
(* Termination (SpecLiveFair).                                             *)

\* C16: the iterator produces a finite sequence: whatever the builder and
\* the limit, against a backend whose total stays bounded and which returns
\* at least one document for every request below the total, repeated
\* advances eventually return end-of-sequence; no more documents are yielded
\* than the greatest total reported, and at most one request more than
\* documents is made.
C16_Finite ==
    /\ [](pc = "iter" =>
            (hist.yielded <= hist.peak /\ nreq <= hist.yielded + 1))
    /\ (pc = "iter") ~> (item.kind = "end")

\* the sequence has ended after MaxDocs pages of one document each
C16_Witness ==
    /\ pc = "iter"
    /\ item.kind = "end"
    /\ it.limit = None
    /\ nreq = MaxDocs
    /\ hist.yielded = MaxDocs
    /\ hist.adv = MaxDocs + 1

-----------------------------------------------------------------------------
(* The builder snapshot (SpecPair).                                        *)

\* a step that is one advance of the second iterator
IsAdvanceTwin == twin.on /\ twin'.adv = twin.adv + 1

-----------------------------------------------------------------------------
(* The stream and the iterator (SpecStream).                               *)

\* the iterator (without a limit) and then the stream of the same builder
\* have both been drained against a backend that failed no request
BothDrained ==
    /\ pc = "stream"
    /\ faults = 0
    /\ it.limit = None
    /\ drain.state = "done"
    /\ st.state = "done"

\* C18 as stated: for the same builder (no limit) and the same static
\* backend, draining the stream yields the same sequence of documents, in
\* the same order, as draining the blocking iterator, with at most one page
\* fetch in flight at any time.
C18_Original ==
    /\ st.inflight <= 1
    /\ BothDrained =>
         /\ st.ordered
         /\ drain.ordered
         /\ st.yielded = drain.yielded

-----------------------------------------------------------------------------
(* The fl and sort parameters (SpecWire).                                  *)

\* the position in a comma-join at which the i-th of the items begins
JoinOffset(items) ==
    LET at[i \in 1 .. Len(items) + 1] ==
            IF i = 1 THEN 1 ELSE at[i - 1] + Len(items[i - 1]) + 1
    IN  at

\* str is the comma-join of the items, in their order: every item stands at
\* its place, a "," stands between two items, and nothing else is in it
IsCommaJoin(str, items) ==
    LET n == Len(items)
        at == JoinOffset(items)
    IN  /\ Len(str) = at[n + 1] - 2
        /\ \A i \in 1 .. n :
             /\ SubSeq(str, at[i], at[i] + Len(items[i]) - 1) = items[i]
             /\ i < n => str[at[i] + Len(items[i])] = ","

Rendered(arg) ==
    arg.field \o <<" ", IF arg.kind = "asc" THEN "asc" ELSE "desc">>

\* C20: for every sort list of length >= 1 the serialized sort parameter is
\* the comma-join, in the order of the sort() calls, of each entry rendered
\* as "<field> asc" or "<field> desc", a bare field name being rendered as
\* "<field> desc".
C20_Sort ==
    (pc = "sent" /\ calls.sort # <<>>) =>
      /\ Get(wire, "sort") # None
      /\ IsCommaJoin(Get(wire, "sort")[1],
                     [i \in 1 .. Len(calls.sort) |-> Rendered(calls.sort[i])])

\* sort(Sort::asc("date")) and then sort("citation_count") were sent as
\* "date asc,citation_count desc"
C20_Witness ==
    /\ pc = "sent"
    /\ calls.sort = << [kind |-> "asc", field |-> <<"date">>],
                       [kind |-> "bare", field |-> <<"citation_count">>] >>
    /\ Get(wire, "sort")
         = Some(<<"date", " ", "asc", ",", "citation_count", " ", "desc">>)

-----------------------------------------------------------------------------
(* The keys of the serialized request (SpecForm).                          *)

\* the key is among the query parameters transmitted
HasKey(w, key) == Get(w, key) # None

\* C21: the serialized search request contains the key rows, start or fq
\* exactly when the corresponding setter was called, and the key sort exactly
\* when the sort list is non-empty; q and fl are always present; and after
\* several fq() calls only the last filter is transmitted.
C21_Keys ==
    pc = "sent" =>
      /\ HasKey(wire, "q")
      /\ HasKey(wire, "fl")
      /\ HasKey(wire, "rows") <=> calls.rows
      /\ HasKey(wire, "start") <=> calls.start
      /\ HasKey(wire, "fq") <=> calls.fq # <<>>
      /\ HasKey(wire, "sort") <=> calls.sort # <<>>
      /\ calls.fq # <<>> => Get(wire, "fq") = Some(calls.fq[Len(calls.fq)])
      /\ Len(wire) = Cardinality({wire[i][1] : i \in 1 .. Len(wire)})

\* fq() was called twice with different filters and neither rows() nor
\* start() was called: the second filter was sent, without rows and start
C21_Witness ==
    /\ pc = "sent"
    /\ calls.fq = << <<"year:", 2, 0>>, <<"au:", "hogg">> >>
    /\ Get(wire, "fq") = Some(<<"au:", "hogg">>)
    /\ ~calls.rows
    /\ ~calls.start
    /\ ~HasKey(wire, "rows")
    /\ ~HasKey(wire, "start")

\* the builder made by feeding the serialized values back through the
\* setters: q through Ads::search, then rows, start, fl, fq and sort, each if
\* its key was transmitted
Rebuild(w) ==
    LET viaFl == Search_fl(Search_new(Get(w, "q")[1]), Get(w, "fl")[1])
        viaFq == IF HasKey(w, "fq")
                 THEN Search_fq(viaFl, Get(w, "fq")[1])
                 ELSE viaFl
        viaSort == IF HasKey(w, "sort")
                   THEN Search_sort(viaFq, [kind |-> "bare",
                                            field |-> Get(w, "sort")[1]])
                   ELSE viaFq
    IN  [query |-> [rows |-> IF HasKey(w, "rows")
                             THEN Some(u64_from_str(Get(w, "rows")[1]))
                             ELSE None,
                    start |-> IF HasKey(w, "start")
                              THEN Some(u64_from_str(Get(w, "start")[1]))
                              ELSE None],
         params |-> viaSort]

\* the serialized form of the rebuilt builder
Reserialized(w) == Serialize(Rebuild(w).query, Rebuild(w).params)

\* C22 as stated: rebuilding a builder from the serialized form of any
\* builder, through the setters, and serializing again yields the first
\* serialization.
C22_Original == pc = "sent" => Reserialized(wire) = wire

-----------------------------------------------------------------------------
(* The Export builder: new, format, sort and send.                         *)

\* the bibcode lists passed to Ads::export: the documents are named by
\* their offsets
BibcodeLists == {<<>>, <<0>>, <<1>>, <<0, 1>>, <<1, 0>>}

\* the custom format strings passed to format(); the first is the one the
\* CLI uses when neither --output nor --format is given
DefaultFormat == <<"%3.2m", " ", "(%Y)", " ", "<%u>">>

FormatStrings == {DefaultFormat, <<"%R">>}

\* Ads::export
ExportNew(format_type, bibcode) ==
    /\ xpc = "none"
    /\ xpc' = "builder"
    /\ export' = Export_new(format_type, bibcode)
    /\ UNCHANGED <<noBib, cli, post, asideVars, wire, numDocs, cap, pc, query,
                   iterVars, faults, sent>>

\* Export::format
ExportFormat(format) ==
    /\ xpc = "builder"
    /\ export' = Export_format(export, format)
    /\ UNCHANGED <<noBib, cli, xpc, post, asideVars, wire, numDocs, cap, pc,
                   query, iterVars, faults, sent>>

\* Export::sort
ExportSort(arg) ==
    /\ xpc = "builder"
    /\ Len(export.sort) < MaxSort
    /\ export' = Export_sort(export, arg)
    /\ UNCHANGED <<noBib, cli, xpc, post, asideVars, wire, numDocs, cap, pc,
                   query, iterVars, faults, sent>>

\* Export::send: one POST request, as the builder stands
ExportSend(kind) ==
    /\ xpc = "builder"
    /\ xpc' = "sent"
    /\ post' = [n |-> post.n + 1] @@ Export_send(export, kind)
    /\ UNCHANGED <<noBib, cli, export, asideVars, wire, numDocs, cap, pc,
                   query, iterVars, faults, sent>>

NextExport ==
    \/ \E format_type \in FormatTypes : \E bibcode \in BibcodeLists :
           ExportNew(format_type, bibcode)
    \/ \E format \in FormatStrings : ExportFormat(format)
    \/ \E arg \in SortArgs : ExportSort(arg)
    \/ \E kind \in ReplyKinds : ExportSend(kind)

SpecExport == InitWire /\ [][NextExport]_vars

\* C23 as stated: an Export request with format Custom and no custom format
\* string fails precondition validation, and no request is dispatched to
\* the export endpoint.
C23_Original ==
    (xpc = "sent" /\ export.format_type = "Custom" /\ export.format = None)
        => (post.n = 0 /\ ~post.ok)

\* C24 as stated: the request body sent for a format other than Custom is
\* the same whether or not format() was called, that is, the body the
\* builder would send had format() never been called.
C24_Original ==
    (xpc = "sent" /\ export.format_type # "Custom")
        => post.body = Export_serialize([export EXCEPT !.format = None])

-----------------------------------------------------------------------------
(* The command-line program: search, collect the bibcodes, export.         *)

\* the limit applied when neither the command line nor the config file
\* gives one
DEFAULT_LIMIT == 100

\* Option::or_else
OrElse(a, b) == IF a = None THEN b ELSE a

\* the command lines: --limit, --output, --format and --sort given or not
CliArgs ==
    [limit : {None, Some(1), Some(2)},
     output : {None, Some("BibTeX"), Some("Custom")},
     format : {None, Some(<<"%R">>)},
     sort : {None, Some(<<"date">>)}]

\* get_config_from_file: no readable config file (None), an empty one, or
\* one that sets limit and output
ConfigFiles ==
    {None,
     Some(NoArgs),
     Some([NoArgs EXCEPT !.limit = Some(3), !.output = Some("EndNote")])}

\* main, "load config file and apply defaults as necessary": the options
\* after the config file was consulted
apply_config(args, config) ==
    IF config = None THEN args
    ELSE [limit |-> OrElse(OrElse(args.limit, config[1].limit),
                           Some(DEFAULT_LIMIT)),
          output |-> OrElse(args.output, config[1].output),
          format |-> OrElse(args.format, config[1].format),
          sort |-> OrElse(args.sort, config[1].sort)]

\* a field name given with --sort, as an argument of sort()
BareSort(sort) ==
    IF sort = None THEN <<>> ELSE <<[kind |-> "bare", field |-> sort[1]]>>

\* main, "set up the query": client.search(query), sort(field) if --sort is
\* set, and fl("bibcode") in the export branch
main_search(opts) ==
    LET new == Search_new(<<"star">>)
        sorted == IF opts.sort = None THEN new
                  ELSE Search_sort(new, BareSort(opts.sort)[1])
    IN  Search_fl(sorted, <<"bibcode">>)

\* main: search.iter(), and limit(n) if a limit is set
main_iter(opts, q) ==
    IF opts.limit = None THEN NewIter(q)
    ELSE [NewIter(q) EXCEPT !.limit = Some(opts.limit[1])]

\* main: the format type and format string of the export request
main_format(opts) ==
    IF opts.output = None /\ opts.format = None
    THEN [format_type |-> "Custom", format |-> Some(DefaultFormat)]
    ELSE [format_type |-> UnwrapOr(opts.output, "Custom"),
          format |-> opts.format]

\* main, "query the export endpoint": the Export builder made of the
\* collected bibcodes
main_export(opts, bibcode) ==
    LET chosen == main_format(opts)
        new == Export_new(chosen.format_type, bibcode)
        formatted == IF chosen.format = None THEN new
                     ELSE Export_format(new, chosen.format[1])
    IN  IF opts.sort = None THEN formatted
        ELSE Export_sort(formatted, BareSort(opts.sort)[1])

\* the bibcodes collect() returned: the documents collected are those at
\* offsets 0 .. yielded - 1 of a static result set
Bibcodes(d) == [k \in 1 .. d.yielded |-> k - 1]

\* main up to the creation of the iterator: the command line is parsed,
\* the config file consulted, the query set up and the iterator made
Main(args, config) ==
    /\ pc = "builder"
    /\ cli.stage = "off"
    /\ cli' = [stage |-> "drain", args |-> args, config |-> config,
               opts |-> apply_config(args, config)]
    /\ params' = main_search(cli'.opts)
    /\ calls' = [NewCalls EXCEPT !.fl = <<<<"bibcode">>>>,
                                 !.sort = BareSort(cli'.opts.sort)]
    /\ pc' = "iter"
    /\ it' = main_iter(cli'.opts, query)
    /\ UNCHANGED <<noBib, xpc, export, post, st, twin, wire, numDocs, cap,
                   query, fresh, item, nreq, lastReq, drain, extra,
                   lastReply, hist, faults, sent>>

\* one advance made by collect(): it consumes the mapped items until the
\* first None or the first Err
AdvanceCli(kind, msg) ==
    /\ cli.stage = "drain"
    /\ drain.state = "running"
    /\ Advance(kind, msg)

\* main after collect() has returned Ok: the export request is built and
\* sent
MainExport(kind) ==
    /\ cli.stage = "drain"
    /\ drain.state = "done"
    /\ cli' = [cli EXCEPT !.stage = "exported"]
    /\ xpc' = "sent"
    /\ export' = main_export(cli.opts, Bibcodes(drain))
    /\ post' = [n |-> post.n + 1] @@ Export_send(export', kind)
    /\ UNCHANGED <<noBib, asideVars, wire, numDocs, cap, pc, query, iterVars,
                   faults, sent>>

\* at most one document of the backend lacks a bibcode
Gaps == {gaps \in SUBSET (0 .. MaxDocs - 1) : Cardinality(gaps) <= 1}

InitCli == InitBackend(SmallDocs, {MAX_ROWS}, Gaps)

NextCli ==
    \/ \E args \in CliArgs : \E config \in ConfigFiles : Main(args, config)
    \/ AdvanceCli("response", "")
    \/ \E m \in Msgs : AdvanceCli("error", m)
    \/ \E k \in {"malformed", "transport"} : AdvanceCli(k, "")
    \/ \E kind \in ReplyKinds : MainExport(kind)

SpecCli == InitCli /\ [][NextCli]_vars

\* the item at which the flow failed, if it has: collect() returned Err
Failed == cli.stage # "off" /\ drain.state = "failed"

\* C25: in the search-then-export flow, if a page fetch fails or a drained
\* document lacks a bibcode, the flow fails at the first such item: no page
\* is requested after it and the export request is never dispatched.  So
\* an export request is only ever dispatched when no request has failed
\* and every document the iterator yielded had a bibcode.
C25_FailFast ==
    /\ Failed =>
         /\ post.n = 0
         /\ xpc = "none"
         /\ cli.stage = "drain"
         /\ nreq = drain.requests
         /\ faults <= 1
         /\ \A d \in noBib : d >= drain.yielded
         /\ faults = 0 => drain.yielded \in noBib /\ drain.err = "Context"
    /\ post.n > 0 =>
         /\ faults = 0
         /\ \A d \in noBib : d >= hist.yielded
         /\ drain.state = "done"

\* the second document of four lacks a bibcode and the limit is 2: the flow
\* failed after one document, with documents left on the backend and no
\* export request
C25_Witness ==
    /\ Failed
    /\ numDocs = 4
    /\ noBib = {1}
    /\ it.limit = Some(2)
    /\ drain.yielded = 1
    /\ drain.msg = "could not load bibcodes"
    /\ post.n = 0

\* the limit C30 states: the command line's, else the config file's, else
\* the default
StatedLimit(args, config) ==
    IF args.limit # None THEN args.limit[1]
    ELSE IF config # None /\ config[1].limit # None THEN config[1].limit[1]
    ELSE DEFAULT_LIMIT

\* C30 as stated: the CLI always bounds the number of documents it
\* fetches; its iterator's limit is the command-line limit if given, else
\* the config file's limit if present, else the default of 100, also when
\* no config file exists or it cannot be read.
C30_Original ==
    cli.stage # "off" => it.limit = Some(StatedLimit(cli.args, cli.config))

-----------------------------------------------------------------------------
(* Failures (SpecFaulty, SpecStream).                                      *)

\* a step that is one advance of the iterator whose page request failed
IsFailedAdvance == IsAdvance /\ faults' = faults + 1

\* C26: a failed page request leaves the iterator's cursor, num_found,
\* buffer and stored builder as they were before the advance; the advance
\* yields one failure item and has issued one request (the iterator does
\* not retry by itself); and the advance that follows a failure item issues
\* a request for the same page again.
C26_FailureKeepsState ==
    [][/\ IsFailedAdvance =>
            /\ it' = it
            /\ query' = query
            /\ item'.kind = "err"
            /\ nreq' = nreq + 1
            /\ hist'.yielded = hist.yielded
       /\ (IsAdvance /\ item.kind = "err") =>
            /\ nreq' = nreq + 1
            /\ lastReq' = lastReq]_vars

\* with one document per page, the request for the second page failed and
\* the advance after it fetched the second document with a third request
C26_Witness ==
    /\ pc = "iter"
    /\ query.rows = Some(1)
    /\ faults = 1
    /\ nreq = 3
    /\ hist.adv = 3
    /\ hist.yielded = 2
    /\ item = DocItem(1)

\* C27 as stated: an iterator created from a builder whose start offset is
\* s > 0 issues its first request at offset s and yields the documents at
\* offsets s, s+1, ... of the result set; its first advance never ends the
\* sequence without a request.  (Stated for an iterator without a limit.)
C27_Original ==
    (/\ pc = "iter"
     /\ hist.adv = 1
     /\ it.limit = None
     /\ UnwrapOr(query.start, 0) > 0) =>
        /\ nreq = 1
        /\ lastReq.start = query.start
        /\ numDocs > query.start[1] => item = DocItem(query.start[1])

\* a step in which the reply to the stream's page request arrives and is a
\* failure
IsFailedResume == pc = "stream" /\ st.inflight > 0 /\ faults' = faults + 1

\* a step that polls the stream after it has finished
IsPollAfterEnd == pc = "stream" /\ st.state = "done" /\ st' # st

\* C28: the asynchronous stream is terminal after a failure: when a page
\* fetch fails it yields exactly one failure item, then ends, and issues no
\* further request however often it is polled afterwards.
C28_StreamEndsOnFailure ==
    [][/\ IsFailedResume =>
            /\ st'.item.kind = "err"
            /\ st'.state = "done"
            /\ st'.nreq = st.nreq
            /\ st'.inflight = 0
            /\ st'.yielded = st.yielded
       /\ IsPollAfterEnd =>
            /\ st'.item = EndItem
            /\ st'.state = "done"
            /\ st'.nreq = st.nreq
            /\ st'.inflight = 0
            /\ st'.yielded = st.yielded]_vars

\* with one document per page and three documents, the stream's second
\* request failed after one document; it was polled MaxExtra times since
\* and has issued no third request
C28_Witness ==
    /\ pc = "stream"
    /\ drain.state = "done"
    /\ faults = 1
    /\ numDocs = 3
    /\ query.rows = Some(1)
    /\ st.state = "done"
    /\ st.yielded = 1
    /\ st.nreq = 2
    /\ st.extra = MaxExtra
    /\ st.item = EndItem

\* the stream has ended and no request of the run has failed
StreamEnded == pc = "stream" /\ st.state = "done" /\ faults = 0

\* the documents of the result set from the builder's start offset on
Available == Max(numDocs - Base, 0)

\* C29: the stream ends only when it receives an empty page, whatever
\* numFound says: over a static backend of N documents with page size
\* P >= 1 it issues exactly ceil(N/P) + 1 requests, the last one at offset
\* N, which is one request more than the blocking iterator needs for
\* N >= 1.  (For a builder with start offset s the documents in reach are
\* those from s on: ceil(max(N - s, 0)/P) + 1 requests, the last at offset
\* max(N, s).  The iterator is one of the same page size, without a limit,
\* made from a builder with start unset or 0.)
C29_EmptyPageEnds ==
    StreamEnded =>
        /\ st.yielded = Available
        /\ st.nreq = Ceil(Available, Min(st.per_page, cap)) + 1
        /\ st.lastReq.start = Some(Max(numDocs, Base))
        /\ Base = 0 =>
             /\ st.nreq = Ceil(numDocs, Min(st.per_page, cap)) + 1
             /\ st.lastReq.start = Some(numDocs)
        /\ (/\ Base = 0
            /\ numDocs >= 1
            /\ it.limit = None
            /\ query.rows # None
            /\ drain.state = "done") =>
             /\ nreq = Ceil(numDocs, Min(st.per_page, cap))
             /\ st.nreq = nreq + 1

\* eleven documents and the default page size of ten: the stream has
\* yielded them all with three requests, the last at offset eleven
C29_Witness ==
    /\ StreamEnded
    /\ numDocs = DEFAULT_ROWS + 1
    /\ query.rows = None
    /\ Base = 0
    /\ st.yielded = numDocs
    /\ st.nreq = 3
    /\ st.lastReq.start = Some(numDocs)

=============================================================================
